---- MODULE Spec2Model ----
(***************************************************************************)
(* State orchestrator of the SusButton playground (MetaPrototype).        *)
(*                                                                         *)
(* The component keeps its state in React hooks.  A handler reads the      *)
(* values captured by the render it was created in (variable `rendered`)   *)
(* and queues updates: a plain value replaces the hook state, a function   *)
(* `prev => ...` is applied to the hook state itself.  Every handler runs  *)
(* in a discrete DOM event, after which React commits the updates,         *)
(* re-renders and runs the effects; an action below is one such event.     *)
(*                                                                         *)
(* LogEntry.id (Math.random) and LogEntry.timestamp (wall clock) are       *)
(* values of the environment which no handler reads back; an entry is      *)
(* modelled by its message.                                                *)
(***************************************************************************)
EXTENDS Integers, Sequences, FiniteSets, TLC

VARIABLES
    btnProps,          \* useState<MetaButtonProps>
    history,           \* useState<MetaButtonProps[]>   ("past", oldest first)
    future,            \* useState<MetaButtonProps[]>   (soonest-next first)
    logs,              \* useState<LogEntry[]>
    windows,           \* useState<Record<WindowId, WindowState>>
    showMeasurements,  \* useState(false)
    showTokens,        \* useState(false)
    view3D,            \* useState(false)
    codeText,          \* useState('')
    isCodeFocused,     \* useState(false)
    confettiTrigger,   \* useState(0)
    themeName,         \* ThemeProvider: useState<ThemeName>('light')
    breakpoint,        \* ThemeProvider: useBreakpoint()
    smartTheme,        \* ThemeProvider: useMemo(..., [themeName, breakpoint])
    rendered,          \* the hook values captured by the handlers of the last render
    last,              \* observer: the last handler call, its argument and the state before it
    trip,              \* observer: the current run of undos followed by redos
    recorded           \* observer: every message handed to logEvent, in call order

hooks == <<btnProps, history, future, logs, windows, showMeasurements,
           showTokens, view3D, codeText, isCodeFocused, confettiTrigger>>
themeHooks == <<themeName, breakpoint, smartTheme>>
vars == <<btnProps, history, future, logs, windows, showMeasurements,
          showTokens, view3D, codeText, isCodeFocused, confettiTrigger,
          themeName, breakpoint, smartTheme, rendered, last, trip, recorded>>

(***************************************************************************)
(* Bounds of the exploration.                                              *)
(***************************************************************************)
MaxHist == 3     \* history-recorded applies stop when past holds this many
MaxLogs == 5     \* logging handlers stop when the log holds this many
MaxZ == 7        \* z-order assignments stop at this value
MaxRecords == 60 \* stage clicks and copies stop after this many logEvent calls
MaxCopies == 1   \* copies of the JSON explored among the stage clicks
MaxSinkZ == 5    \* z-order assignments explored together with the other panels

(***************************************************************************)
(* MetaButtonProps                                                         *)
(***************************************************************************)
Keys == <<"label", "type", "size", "radius", "iconPlacement", "icon",
          "disabled", "forcedHover", "forcedFocus", "forcedActive">>

BoolKeys == {"disabled", "forcedHover", "forcedFocus", "forcedActive"}

DefaultProps ==
    [label |-> "SusButton", type |-> "primary", size |-> "m", radius |-> "8px",
     iconPlacement |-> "left", icon |-> "ph-check", disabled |-> FALSE,
     forcedHover |-> FALSE, forcedFocus |-> FALSE, forcedActive |-> FALSE]

\* { ...obj, ...upd }
Spread(obj, upd) ==
    [k \in (DOMAIN obj) \cup (DOMAIN upd) |->
        IF k \in DOMAIN upd THEN upd[k] ELSE obj[k]]

\* `${value}` for the value of field k
ToStr(k, v) == IF k \in BoolKeys THEN (IF v THEN "true" ELSE "false") ELSE v

(***************************************************************************)
(* JSON text.  A text is the sequence of its tokens (white space between   *)
(* tokens carries no meaning): <<"{">>, <<"}">>, <<"key", k>>,             *)
(* <<"str", s>>, <<"bool", "true" | "false">>.                             *)
(***************************************************************************)
ValueToken(k, v) == IF k \in BoolKeys THEN <<"bool", ToStr(k, v)>> ELSE <<"str", v>>

RECURSIVE Members(_, _)
Members(obj, i) ==
    IF i > Len(Keys) THEN <<>>
    ELSE (IF Keys[i] \in DOMAIN obj
            THEN << <<"key", Keys[i]>>, ValueToken(Keys[i], obj[Keys[i]]) >>
            ELSE <<>>) \o Members(obj, i + 1)

\* JSON.stringify(obj, null, 2)
Stringify(obj) == << <<"{">> >> \o Members(obj, 1) \o << <<"}">> >>

IsValueToken(t) == Len(t) = 2 /\ t[1] \in {"str", "bool"}
                   /\ (t[1] = "bool" => t[2] \in {"true", "false"})

TokenValue(t) == IF t[1] = "bool" THEN t[2] = "true" ELSE t[2]

\* the text is an object literal: { key value key value ... }
WellFormed(text) ==
    /\ Len(text) >= 2
    /\ text[1] = <<"{">>
    /\ text[Len(text)] = <<"}">>
    /\ Len(text) % 2 = 0
    /\ \A i \in 2..(Len(text) - 1) :
          IF i % 2 = 0 THEN Len(text[i]) = 2 /\ text[i][1] = "key"
                       ELSE IsValueToken(text[i])

\* the object JSON.parse returns for a well-formed text (a repeated key keeps its last value)
ParsedObject(text) ==
    LET keyAt == {i \in 2..(Len(text) - 1) : i % 2 = 0}
        names == {text[i][2] : i \in keyAt}
        lastOf(k) == CHOOSE i \in keyAt :
                        /\ text[i][2] = k
                        /\ \A j \in keyAt : text[j][2] = k => j <= i
    IN [k \in names |-> TokenValue(text[lastOf(k) + 1])]

\* JSON.parse(newVal) inside try/catch: ok = FALSE stands for the thrown SyntaxError
Parse(text) ==
    IF WellFormed(text) THEN [ok |-> TRUE, value |-> ParsedObject(text)]
    ELSE [ok |-> FALSE, value |-> <<>>]

(***************************************************************************)
(* Windows                                                                 *)
(***************************************************************************)
WindowIds == {"control", "code", "console"}

WINDOW_WIDTH == 400
CONTROL_PANEL_HEIGHT == 680
CODE_PANEL_HEIGHT == 420

InitWindows ==
    [control |-> [id |-> "control", title |-> "Control", isOpen |-> TRUE, zIndex |-> 1,
                  x |-> 0 - (WINDOW_WIDTH \div 2) - 220, y |-> 0 - (CONTROL_PANEL_HEIGHT \div 2)],
     code    |-> [id |-> "code", title |-> "Code I/O", isOpen |-> FALSE, zIndex |-> 2,
                  x |-> 0 - (WINDOW_WIDTH \div 2) + 220, y |-> 0 - (CODE_PANEL_HEIGHT \div 2)],
     console |-> [id |-> "console", title |-> "Console", isOpen |-> FALSE, zIndex |-> 3,
                  x |-> 0 - (WINDOW_WIDTH \div 2), y |-> 150]]

\* Math.max(...Object.values(prev).map(w => w.zIndex))
MaxZIndex(ws) == CHOOSE z \in {ws[i].zIndex : i \in DOMAIN ws} :
                    \A i \in DOMAIN ws : ws[i].zIndex <= z

(***************************************************************************)
(* Log                                                                     *)
(***************************************************************************)
LOG_CAPACITY == 50

\* arr.slice(-n)
SliceLast(arr, n) == IF Len(arr) <= n THEN arr ELSE SubSeq(arr, Len(arr) - n + 1, Len(arr))

\* setLogs(prev => [...prev, entry].slice(-50)) with the oldest entries kept
logEventKeepsOldest(prev, msg) ==
    LET all == Append(prev, [message |-> msg])
    IN IF Len(all) <= LOG_CAPACITY THEN all ELSE SubSeq(all, 1, LOG_CAPACITY)

\* setLogs(prev => [...prev, entry].slice(-50))
logEvent(prev, msg) == SliceLast(Append(prev, [message |-> msg]), LOG_CAPACITY)

\* a call logEvent(msg)
Log(msg) ==
    /\ logs' = logEvent(logs, msg)
    /\ recorded' = Append(recorded, msg)

(***************************************************************************)
(* Design tokens.  A token value is a node: a leaf (string or number, by   *)
(* its text), null, undefined, or a mapping from keys to nodes.            *)
(***************************************************************************)
Leaf(v) == [kind |-> "leaf", value |-> v, entries |-> <<>>]
Null == [kind |-> "null", value |-> "", entries |-> <<>>]
Undefined == [kind |-> "undefined", value |-> "", entries |-> <<>>]
Map(f) == [kind |-> "map", value |-> "", entries |-> f]

Breakpoints == {"mobile", "tablet", "desktop"}

\* value is an object with one of the keys mobile, tablet, desktop
isResponsiveObject(value) ==
    value.kind = "map" /\ (DOMAIN value.entries) \cap Breakpoints # {}

\* value[key]
Member(value, key) ==
    IF key \in DOMAIN value.entries THEN value.entries[key] ELSE Undefined

\* a ?? b
Coalesce(a, b) == IF a.kind \in {"null", "undefined"} THEN b ELSE a

\* the fallback written as value[breakpoint] ?? value.mobile ?? value.tablet ?? value.desktop
resolveResponsiveMobileFirst(value, bp) ==
    Coalesce(Coalesce(Coalesce(Member(value, bp), Member(value, "mobile")),
                      Member(value, "tablet")), Member(value, "desktop"))

\* value[breakpoint] ?? value.desktop ?? value.tablet ?? value.mobile
resolveResponsive(value, bp) ==
    Coalesce(Coalesce(Coalesce(Member(value, bp), Member(value, "desktop")),
                      Member(value, "tablet")), Member(value, "mobile"))

RECURSIVE resolveTokens(_, _)
resolveTokens(obj, bp) ==
    Map([key \in DOMAIN obj.entries |->
            LET value == obj.entries[key]
            IN IF isResponsiveObject(value) THEN resolveResponsive(value, bp)
               ELSE IF value.kind = "map" THEN resolveTokens(value, bp)
               ELSE value])

\* the colour palettes (of each, the first surface and content colours)
lightThemeColors ==
    [Color |-> Map([Base |-> Map([Surface |-> Map("1" :> Leaf("#FFFFFF")),
                                  Content |-> Map("1" :> Leaf("#0F172A"))])])]

darkThemeColors ==
    [Color |-> Map([Base |-> Map([Surface |-> Map("1" :> Leaf("#020617")),
                                  Content |-> Map("1" :> Leaf("#F8FAFC"))])])]

themes == [light |-> lightThemeColors, dark |-> darkThemeColors]

\* the typography styles of each shape: responsive on three breakpoints (Display.L),
\* not responsive (Display.S), responsive on mobile and tablet only (PageSubheading)
typography ==
    [Type |-> Map(
       [Expressive |-> Map(
          [Display |-> Map(
             [L |-> Map([fontSize |-> Map([desktop |-> Leaf("48px"), tablet |-> Leaf("40px"),
                                           mobile |-> Leaf("36px")]),
                         lineHeight |-> Leaf("1.1"), tag |-> Leaf("h1")]),
              S |-> Map([fontSize |-> Leaf("30px"), lineHeight |-> Leaf("1.1"),
                         tag |-> Leaf("h3")])])]),
        Readable |-> Map(
          [Body |-> Map(
             [PageSubheading |->
                 Map([fontSize |-> Map([mobile |-> Leaf("14px"), tablet |-> Leaf("16px")]),
                      lineHeight |-> Map([mobile |-> Leaf("22px"), tablet |-> Leaf("26px")]),
                      tag |-> Leaf("p")])])])])]

\* rawTheme = { Type: typography.Type, spacing, radius, effects, time } (of each flat
\* table, one entry)
rawTheme ==
    Map([Type |-> typography.Type,
         spacing |-> Map("Space.XS" :> Leaf("4px")),
         radius |-> Map("Radius.S" :> Leaf("6px")),
         effects |-> Map("Effect.Shadow.Drop.1" :> Leaf("0 1px 2px 0 rgb(0 0 0 / 0.05)")),
         time |-> Map("Time.1x" :> Leaf("100ms"))])

ThemeNames == {"light", "dark"}

\* the function useMemo wraps: { ...colorTheme, ...resolvedRawTheme }
computeSmartTheme(name, bp) ==
    LET colorTheme == themes[name]
        resolvedRawTheme == resolveTokens(rawTheme, bp)
    IN Map(Spread(colorTheme, resolvedRawTheme.entries))

\* useMemo with the dependency list [themeName]
useMemoSmartThemeByName(memo, prevName, prevBp, name, bp) ==
    IF name # prevName THEN computeSmartTheme(name, bp) ELSE memo

\* useMemo(..., [themeName, breakpoint]): the memoised value is kept while both
\* dependencies are the ones of the previous render
useMemoSmartTheme(memo, prevName, prevBp, name, bp) ==
    IF name # prevName \/ bp # prevBp THEN computeSmartTheme(name, bp) ELSE memo

(***************************************************************************)
(* Presentation of the interaction flags by the consumers                  *)
(***************************************************************************)
\* ControlPanel: the value its State selector displays
currentInteraction(props) ==
    IF props.disabled THEN "disabled"
    ELSE IF props.forcedActive THEN "active"
    ELSE IF props.forcedFocus THEN "focus"
    ELSE IF props.forcedHover THEN "hover"
    ELSE "default"

\* Button: the colours of a variant (of the table, two variants)
getThemeStyles(type, name) ==
    LET isDark == name = "dark"
        colors ==
          [primary |-> [bg |-> IF isDark THEN "#FFFFFF" ELSE "#0F172A",
                        hover |-> IF isDark THEN "#E2E8F0" ELSE "#334155"],
           ghost |-> [bg |-> "transparent",
                      hover |-> IF isDark THEN "#334155" ELSE "#E2E8F0"]]
    IN IF type \in DOMAIN colors THEN colors[type] ELSE colors.primary

\* Button: forcedHover || isHovered
effectiveHover(props, isHovered) == props.forcedHover \/ isHovered

\* Button: the animate prop of the motion.button, numbers by their text
animateState(props, isHovered, name) ==
    LET variantStyle == getThemeStyles(props.type, name)
    IN [y |-> IF props.disabled THEN "0"
              ELSE IF props.forcedActive THEN "1"
              ELSE IF effectiveHover(props, isHovered) THEN "-2" ELSE "0",
        scale |-> IF props.disabled THEN "1"
                  ELSE IF props.forcedActive THEN "0.98" ELSE "1",
        backgroundColor |-> IF effectiveHover(props, isHovered) THEN variantStyle.hover
                            ELSE variantStyle.bg]

\* Button: the animate prop of the focus ring layer
focusRingAnimate(props) ==
    [opacity |-> IF props.forcedFocus THEN "1" ELSE "0",
     scale |-> IF props.forcedFocus THEN "1" ELSE "0.95"]

\* Button: opacity of the base container style
containerOpacity(props) == IF props.disabled THEN "0.4" ELSE "1"

(***************************************************************************)
(* Inputs of the exploration: what the panels send to the handlers.        *)
(***************************************************************************)
\* onPropChange(key, e.target.value) of the Control Panel's inputs and selects
PropInputs == {<<"size", "l">>, <<"label", "X">>}

\* the options of the Control Panel's State select
InteractionValues == {"default", "hover", "focus", "active", "disabled"}

\* the State selections explored together with the other history handlers
HistoryInteractions == {"default", "hover", "disabled"}

\* token values: strings, and null
TokenLeaves == {Leaf("a"), Leaf("b"), Leaf("c"), Null}

\* every responsive node over the three breakpoint keys with those values
ResponsiveNodes ==
    {Map(f) : f \in UNION {[S -> TokenLeaves] : S \in (SUBSET Breakpoints) \ {{}}}}

\* trees with nested mappings: a flat responsive node below a group, a responsive
\* node whose desktop value is a mapping that holds a responsive node, a responsive
\* node whose desktop value is a responsive node
NestedTrees ==
    { Map([group |-> Map([token |-> Map([mobile |-> Leaf("a"), desktop |-> Leaf("b")]),
                          tag |-> Leaf("p")]),
           plain |-> Leaf("c")]),
      Map([token |-> Map([desktop |-> Map([inner |-> Map([mobile |-> Leaf("a"),
                                                          desktop |-> Leaf("b")])]),
                          mobile |-> Leaf("c")])]),
      Map([token |-> Map([desktop |-> Map([mobile |-> Leaf("a")])])]) }

\* the trees handed to resolveTokens
TokenTrees == {Map([token |-> v]) : v \in ResponsiveNodes} \cup NestedTrees

\* ids handed to toggleWindow: the three panels and a string that names none
AnyWindowIds == WindowIds \cup {"settings"}

\* orchestrator events that may be dispatched in one batch
Events ==
    { <<"handlePropChange", "size", "l">>, <<"handleUndo">>, <<"handleRedo">>,
      <<"handleToggleMeasurements">>, <<"handleToggleTokens">> }

\* snapshots with every combination of the four interaction flags, of two variants
FlagSnapshots ==
    { [DefaultProps EXCEPT !.disabled = d, !.forcedHover = h, !.forcedFocus = f,
                           !.forcedActive = a, !.type = t] :
         d \in BOOLEAN, h \in BOOLEAN, f \in BOOLEAN, a \in BOOLEAN,
         t \in {"primary", "ghost"} }

\* code-panel texts that leave a snapshot with two flags set, and one with no flag
\* field at all
FlagEditTexts ==
    { Stringify([DefaultProps EXCEPT !.disabled = TRUE, !.forcedActive = TRUE]),
      << <<"{">>, <<"key", "label">>, <<"str", "Y">>, <<"}">> >> }

\* snapshots handed to updateBtnProps when it is called on its own
ApplyInputs == {DefaultProps, [DefaultProps EXCEPT !.size = "xs"]}

\* what the code panel's textarea may hold after an edit
EditTexts ==
    { Stringify([DefaultProps EXCEPT !.radius = "Pill"]),
      SubSeq(Stringify(DefaultProps), 1, 5),
      << <<"{">>, <<"key", "label">>, <<"str", "Y">>, <<"}">> >> }

(***************************************************************************)
(* Observers                                                               *)
(***************************************************************************)
State ==
    [btnProps |-> btnProps, history |-> history, future |-> future, logs |-> logs,
     windows |-> windows, showMeasurements |-> showMeasurements,
     showTokens |-> showTokens, view3D |-> view3D, codeText |-> codeText,
     isCodeFocused |-> isCodeFocused]

\* apply: <<>>, or <<[newProps, saveHistory]>> when the handler called updateBtnProps
Called(op, arg, apply) == last' = [op |-> op, arg |-> arg, apply |-> apply, pre |-> State]

Applied(newProps, saveHistory) == << [newProps |-> newProps, saveHistory |-> saveHistory] >>

NoTrip == [phase |-> "none", undos |-> 0, redos |-> 0,
           base |-> [btnProps |-> DefaultProps, history |-> <<>>, future |-> <<>>]]

\* the run of consecutive effective undos, then redos, the call `op` continues or ends
TripAfter(op, effective) ==
    IF op = "handleUndo" /\ effective
    THEN IF trip.phase = "undo"
         THEN [trip EXCEPT !.undos = @ + 1]
         ELSE [phase |-> "undo", undos |-> 1, redos |-> 0,
               base |-> [btnProps |-> btnProps, history |-> history, future |-> future]]
    ELSE IF op = "handleRedo" /\ effective /\ trip.phase \in {"undo", "redo"}
            /\ trip.redos < trip.undos
         THEN [trip EXCEPT !.phase = "redo", !.redos = @ + 1]
         ELSE NoTrip

(***************************************************************************)
(* Commit, render and effects                                              *)
(***************************************************************************)
\* what the handlers of a render capture
Captured(props, hist, fut, meas, tok, v3d) ==
    [btnProps |-> props, history |-> hist, future |-> fut,
     showMeasurements |-> meas, showTokens |-> tok, view3D |-> v3d]

\* useEffect(() => { if (!isCodeFocused) setCodeText(JSON.stringify(btnProps, null, 2)) },
\*           [btnProps, isCodeFocused])
\* text: the buffer the handler left; depsChanged: btnProps was set to another object
\* or isCodeFocused changed
CodeTextEffect(text, depsChanged, focused, props) ==
    IF depsChanged /\ ~focused THEN Stringify(props) ELSE text

\* the commit with the effect's dependency list written [btnProps]
RenderEffectOnPropsOnly(text, propsSet) ==
    /\ codeText' = CodeTextEffect(text, propsSet, isCodeFocused', btnProps')
    /\ rendered' = Captured(btnProps', history', future', showMeasurements',
                            showTokens', view3D')

\* the commit that ends an event: the effect runs, the handlers are re-created
Render(text, propsSet) ==
    /\ codeText' = CodeTextEffect(text, propsSet \/ isCodeFocused' # isCodeFocused,
                                  isCodeFocused', btnProps')
    /\ rendered' = Captured(btnProps', history', future', showMeasurements',
                            showTokens', view3D')

\* the hook state before the first render
Unmounted ==
    [btnProps |-> DefaultProps, history |-> <<>>, future |-> <<>>,
     logs |-> <<>>, windows |-> InitWindows,
     showMeasurements |-> FALSE, showTokens |-> FALSE,
     view3D |-> FALSE, codeText |-> <<>>, isCodeFocused |-> FALSE]

\* the state after the first render and its effects, at breakpoint bp
Mounted(bp) ==
    /\ btnProps = DefaultProps
    /\ history = <<>>
    /\ future = <<>>
    /\ logs = logEvent(<<>>, <<"System Ready. SUS Design System initialized.">>)
    /\ windows = InitWindows
    /\ showMeasurements = FALSE
    /\ showTokens = FALSE
    /\ view3D = FALSE
    /\ isCodeFocused = FALSE
    /\ codeText = CodeTextEffect(<<>>, TRUE, FALSE, DefaultProps)
    /\ rendered = Captured(DefaultProps, <<>>, <<>>, FALSE, FALSE, FALSE)
    /\ trip = NoTrip
    /\ recorded = << <<"System Ready. SUS Design System initialized.">> >>
    /\ confettiTrigger = 0
    /\ themeName = "light"
    /\ breakpoint = bp
    /\ smartTheme = computeSmartTheme("light", bp)

Init ==
    /\ Mounted("desktop")
    /\ last = [op |-> "mount", arg |-> <<>>, apply |-> <<>>, pre |-> Unmounted]

\* the playground mounted in a viewport of any breakpoint
InitTheme ==
    /\ \E bp \in Breakpoints : Mounted(bp)
    /\ last = [op |-> "mount", arg |-> <<>>, apply |-> <<>>, pre |-> Unmounted]

\* the mounted playground, with a call of resolveTokens about to be made
InitTokens ==
    /\ Mounted("desktop")
    /\ \E tree \in TokenTrees, bp \in Breakpoints :
          last = [op |-> "input", arg |-> <<tree, bp>>, apply |-> <<>>, pre |-> Unmounted]

\* the mounted playground, with a snapshot about to be rendered by the Control Panel
\* and the Button, the pointer over the button or not, in either theme
InitPresent ==
    /\ Mounted("desktop")
    /\ \E props \in FlagSnapshots, isHovered \in BOOLEAN, name \in ThemeNames :
          last = [op |-> "props", arg |-> <<props, isHovered, name>>, apply |-> <<>>,
                  pre |-> Unmounted]

(***************************************************************************)
(* History                                                                 *)
(***************************************************************************)
\* updateBtnProps without setFuture([])
updateBtnPropsKeepsFuture(newProps, saveHistory) ==
    /\ IF saveHistory
       THEN /\ history' = Append(history, rendered.btnProps)
            /\ UNCHANGED future
       ELSE UNCHANGED <<history, future>>
    /\ btnProps' = newProps

\* updateBtnProps that does not test saveHistory
updateBtnPropsAlwaysSaves(newProps, saveHistory) ==
    /\ history' = Append(history, rendered.btnProps)
    /\ future' = <<>>
    /\ btnProps' = newProps

\* updateBtnProps(newProps, saveHistory): the hook values it leaves
updateBtnProps(newProps, saveHistory) ==
    /\ IF saveHistory
       THEN /\ history' = Append(history, rendered.btnProps)
            /\ future' = <<>>
       ELSE UNCHANGED <<history, future>>
    /\ btnProps' = newProps

\* handlePropChange(key, value)
handlePropChange(key, value) ==
    /\ Len(history) < MaxHist
    /\ Len(logs) < MaxLogs
    /\ updateBtnProps(Spread(rendered.btnProps, (key :> value)), TRUE)
    /\ Log(<<"Prop updated", key, ToStr(key, value)>>)
    /\ UNCHANGED <<windows, showMeasurements, showTokens, view3D, confettiTrigger, themeHooks, isCodeFocused>>
    /\ Render(codeText, TRUE)
    /\ Called("handlePropChange", <<key, ToStr(key, value)>>,
              Applied(Spread(rendered.btnProps, (key :> value)), TRUE))
    /\ trip' = TripAfter("handlePropChange", TRUE)

\* the keys of an update object, in insertion order
KeysOf(upd) == SelectSeq(Keys, LAMBDA k : k \in DOMAIN upd)

\* handlePropChange(updates)
handlePropChangeObj(updates) ==
    /\ Len(history) < MaxHist
    /\ Len(logs) < MaxLogs
    /\ updateBtnProps(Spread(rendered.btnProps, updates), TRUE)
    /\ Log(<<"State updated">> \o KeysOf(updates))
    /\ UNCHANGED <<windows, showMeasurements, showTokens, view3D, confettiTrigger, themeHooks, isCodeFocused>>
    /\ Render(codeText, TRUE)
    /\ trip' = TripAfter("handlePropChange", TRUE)

\* handleInteractionChange that starts from an empty updates object: the flags of
\* the other states are not reset
handleInteractionChangeKeepsFlags(val) ==
    LET flag == [disabled |-> "disabled", hover |-> "forcedHover",
                 focus |-> "forcedFocus", active |-> "forcedActive"]
        updates == IF val = "default"
                   THEN [disabled |-> FALSE, forcedHover |-> FALSE,
                         forcedFocus |-> FALSE, forcedActive |-> FALSE]
                   ELSE (flag[val] :> TRUE)
    IN /\ handlePropChangeObj(updates)
       /\ Called("handleInteractionChange", <<val>>,
                 Applied(Spread(rendered.btnProps, updates), TRUE))

\* ControlPanel.handleInteractionChange(e), e.target.value = val
handleInteractionChange(val) ==
    LET updates == [disabled |-> val = "disabled", forcedHover |-> val = "hover",
                    forcedFocus |-> val = "focus", forcedActive |-> val = "active"]
    IN /\ handlePropChangeObj(updates)
       /\ Called("handleInteractionChange", <<val>>,
                 Applied(Spread(rendered.btnProps, updates), TRUE))

\* handleUndo with setFuture(prev => [...prev, btnProps])
undoUpdatesAppendsFuture(c, prevFuture) ==
    [future |-> Append(prevFuture, c.btnProps),
     btnProps |-> c.history[Len(c.history)],
     history |-> SubSeq(c.history, 1, Len(c.history) - 1)]

\* the values handleUndo sets, from the captured values c and the hook state of future
undoUpdates(c, prevFuture) ==
    LET previous == c.history[Len(c.history)]
        newHistory == SubSeq(c.history, 1, Len(c.history) - 1)
    IN [future |-> <<c.btnProps>> \o prevFuture,
        btnProps |-> previous,
        history |-> newHistory]

\* handleUndo that logs before it tests history.length
handleUndoLogsFirst ==
    /\ Len(logs) < MaxLogs
    /\ Log(<<"Undo performed">>)
    /\ IF Len(rendered.history) = 0
       THEN UNCHANGED <<btnProps, history, future>>
       ELSE LET u == undoUpdates(rendered, future)
            IN /\ future' = u.future
               /\ btnProps' = u.btnProps
               /\ history' = u.history
    /\ UNCHANGED <<windows, showMeasurements, showTokens, view3D, confettiTrigger, themeHooks, isCodeFocused>>
    /\ Render(codeText, Len(rendered.history) # 0)
    /\ Called("handleUndo", <<>>, <<>>)
    /\ trip' = TripAfter("handleUndo", Len(rendered.history) # 0)

handleUndo ==
    /\ Len(logs) < MaxLogs
    /\ IF Len(rendered.history) = 0
       THEN UNCHANGED <<btnProps, history, future, logs, recorded>>
       ELSE LET u == undoUpdates(rendered, future)
            IN /\ future' = u.future
               /\ btnProps' = u.btnProps
               /\ history' = u.history
               /\ Log(<<"Undo performed">>)
    /\ UNCHANGED <<windows, showMeasurements, showTokens, view3D, confettiTrigger, themeHooks, isCodeFocused>>
    /\ Render(codeText, Len(rendered.history) # 0)
    /\ Called("handleUndo", <<>>, <<>>)
    /\ trip' = TripAfter("handleUndo", Len(rendered.history) # 0)

\* handleRedo that takes future[future.length - 1] and future.slice(0, -1)
redoUpdatesTakesLast(c, prevHistory) ==
    [history |-> Append(prevHistory, c.btnProps),
     btnProps |-> c.future[Len(c.future)],
     future |-> SubSeq(c.future, 1, Len(c.future) - 1)]

\* handleRedo with setHistory(prev => [btnProps, ...prev])
redoUpdatesPrependsHistory(c, prevHistory) ==
    [history |-> <<c.btnProps>> \o prevHistory,
     btnProps |-> c.future[1],
     future |-> SubSeq(c.future, 2, Len(c.future))]

\* handleRedo with setFuture(future) in place of setFuture(newFuture)
redoUpdatesKeepsFuture(c, prevHistory) ==
    [history |-> Append(prevHistory, c.btnProps),
     btnProps |-> c.future[1],
     future |-> c.future]

\* the values handleRedo sets, from the captured values c and the hook state of history
redoUpdates(c, prevHistory) ==
    LET next == c.future[1]
        newFuture == SubSeq(c.future, 2, Len(c.future))
    IN [history |-> Append(prevHistory, c.btnProps),
        btnProps |-> next,
        future |-> newFuture]

handleRedo ==
    /\ Len(logs) < MaxLogs
    /\ IF Len(rendered.future) = 0
       THEN UNCHANGED <<btnProps, history, future, logs, recorded>>
       ELSE LET r == redoUpdates(rendered, history)
            IN /\ history' = r.history
               /\ btnProps' = r.btnProps
               /\ future' = r.future
               /\ Log(<<"Redo performed">>)
    /\ UNCHANGED <<windows, showMeasurements, showTokens, view3D, confettiTrigger, themeHooks, isCodeFocused>>
    /\ Render(codeText, Len(rendered.future) # 0)
    /\ Called("handleRedo", <<>>, <<>>)
    /\ trip' = TripAfter("handleRedo", Len(rendered.future) # 0)

\* handleCodeChange that empties past and future in its catch block
handleCodeChangeResetsOnError(newVal) ==
    LET parsed == Parse(newVal)
    IN /\ Len(history) < MaxHist
       /\ IF parsed.ok
          THEN updateBtnProps(parsed.value, TRUE)
          ELSE /\ history' = <<>>
               /\ future' = <<>>
               /\ UNCHANGED btnProps
       /\ UNCHANGED <<logs, recorded, windows, showMeasurements, showTokens, view3D, confettiTrigger, themeHooks, isCodeFocused>>
       /\ Render(newVal, parsed.ok)
       /\ Called("handleCodeChange", newVal,
                 IF parsed.ok THEN Applied(parsed.value, TRUE) ELSE <<>>)
       /\ trip' = TripAfter("handleCodeChange", parsed.ok)

\* handleCodeChange(e), e.target.value = newVal
handleCodeChange(newVal) ==
    LET parsed == Parse(newVal)
    IN /\ Len(history) < MaxHist
       /\ IF parsed.ok
          THEN updateBtnProps(parsed.value, TRUE)
          ELSE UNCHANGED <<btnProps, history, future>>
       /\ UNCHANGED <<logs, recorded, windows, showMeasurements, showTokens, view3D, confettiTrigger, themeHooks, isCodeFocused>>
       /\ Render(newVal, parsed.ok)
       /\ Called("handleCodeChange", newVal,
                 IF parsed.ok THEN Applied(parsed.value, TRUE) ELSE <<>>)
       /\ trip' = TripAfter("handleCodeChange", parsed.ok)

\* a call updateBtnProps(newProps, saveHistory) on its own, with either flag
applyBtnProps(newProps, saveHistory) ==
    /\ saveHistory => Len(history) < MaxHist
    /\ updateBtnProps(newProps, saveHistory)
    /\ UNCHANGED <<logs, recorded, windows, showMeasurements, showTokens, view3D, confettiTrigger, themeHooks, isCodeFocused>>
    /\ Render(codeText, TRUE)
    /\ Called("updateBtnProps", <<>>, Applied(newProps, saveHistory))
    /\ trip' = TripAfter("updateBtnProps", TRUE)

\* CodePanel onFocus / onBlur: setIsCodeFocused(focused)
setIsCodeFocused(focused) ==
    /\ isCodeFocused' = focused
    /\ UNCHANGED <<btnProps, history, future, logs, recorded, windows, showMeasurements,
                   showTokens, view3D, confettiTrigger, themeHooks>>
    /\ Render(codeText, FALSE)
    /\ Called("setIsCodeFocused", <<ToStr("disabled", focused)>>, <<>>)
    /\ trip' = TripAfter("setIsCodeFocused", TRUE)

(***************************************************************************)
(* Token resolution                                                        *)
(***************************************************************************)
\* the call resolveTokens(tree, bp) on the pending input; result: what it returns
callResolveTokens ==
    /\ last.op = "input"
    /\ last' = [op |-> "resolveTokens", arg |-> last.arg, apply |-> <<>>,
                pre |-> last.pre, result |-> resolveTokens(last.arg[1], last.arg[2])]
    /\ UNCHANGED <<hooks, themeHooks, rendered, trip, recorded>>

(***************************************************************************)
(* Rendering of a snapshot                                                 *)
(***************************************************************************)
\* the Control Panel and the Button render the pending snapshot; result: what each shows
renderConsumers ==
    /\ last.op = "props"
    /\ last' = [op |-> "render", arg |-> last.arg, apply |-> <<>>, pre |-> last.pre,
                result |-> [currentInteraction |-> currentInteraction(last.arg[1]),
                            animateState |-> animateState(last.arg[1], last.arg[2],
                                                          last.arg[3]),
                            variantStyle |-> getThemeStyles(last.arg[1].type, last.arg[3]),
                            focusRing |-> focusRingAnimate(last.arg[1]),
                            opacity |-> containerOpacity(last.arg[1])]]
    /\ UNCHANGED <<hooks, themeHooks, rendered, trip, recorded>>

(***************************************************************************)
(* Stage and clipboard                                                     *)
(***************************************************************************)
handleStageButtonClick ==
    /\ Len(recorded) < MaxRecords
    /\ Log(<<"Button Clicked!">>)
    /\ confettiTrigger' = confettiTrigger + 1
    /\ UNCHANGED <<btnProps, history, future, windows, showMeasurements, showTokens,
                   view3D, isCodeFocused, themeHooks>>
    /\ Render(codeText, FALSE)
    /\ Called("handleStageButtonClick", <<>>, <<>>)
    /\ trip' = TripAfter("handleStageButtonClick", TRUE)

\* navigator.clipboard.writeText is a service of the environment
handleCopyCode ==
    /\ Len(recorded) < MaxRecords
    /\ Len(SelectSeq(recorded, LAMBDA m : m = <<"JSON copied to clipboard">>)) < MaxCopies
    /\ Log(<<"JSON copied to clipboard">>)
    /\ UNCHANGED <<btnProps, history, future, windows, showMeasurements, showTokens,
                   view3D, isCodeFocused, confettiTrigger, themeHooks>>
    /\ Render(codeText, FALSE)
    /\ Called("handleCopyCode", <<>>, <<>>)
    /\ trip' = TripAfter("handleCopyCode", TRUE)

(***************************************************************************)
(* Overlays                                                                *)
(***************************************************************************)
OnOff(b) == IF b THEN "On" ELSE "Off"

\* handleToggleMeasurements without `if (showTokens) setShowTokens(false)`
toggleMeasurementsUpdatesKeepsTokens(c, prev) ==
    [showMeasurements |-> ~prev.showMeasurements,
     showTokens |-> prev.showTokens]

\* the values handleToggleMeasurements leaves, from the captured values c and the
\* hook state prev
toggleMeasurementsUpdates(c, prev) ==
    [showMeasurements |-> ~prev.showMeasurements,
     showTokens |-> IF c.showTokens THEN FALSE ELSE prev.showTokens]

\* the values handleToggleTokens leaves
toggleTokensUpdates(c, prev) ==
    [showTokens |-> ~prev.showTokens,
     showMeasurements |-> IF c.showMeasurements THEN FALSE ELSE prev.showMeasurements]

handleToggleMeasurements ==
    LET u == toggleMeasurementsUpdates(rendered, State)
    IN /\ Len(logs) < MaxLogs
       /\ showMeasurements' = u.showMeasurements
       /\ showTokens' = u.showTokens
       /\ Log(<<"Measurements toggled", OnOff(~rendered.showMeasurements)>>)
       /\ UNCHANGED <<btnProps, history, future, windows, view3D, confettiTrigger,
                      themeHooks, isCodeFocused>>
       /\ Render(codeText, FALSE)
       /\ Called("handleToggleMeasurements", <<>>, <<>>)
       /\ trip' = TripAfter("handleToggleMeasurements", TRUE)

handleToggleTokens ==
    LET u == toggleTokensUpdates(rendered, State)
    IN /\ Len(logs) < MaxLogs
       /\ showMeasurements' = u.showMeasurements
       /\ showTokens' = u.showTokens
       /\ Log(<<"Tokens toggled", OnOff(~rendered.showTokens)>>)
       /\ UNCHANGED <<btnProps, history, future, windows, view3D, confettiTrigger,
                      themeHooks, isCodeFocused>>
       /\ Render(codeText, FALSE)
       /\ Called("handleToggleTokens", <<>>, <<>>)
       /\ trip' = TripAfter("handleToggleTokens", TRUE)

\* onToggleView3D={() => setView3D(!view3D)}
onToggleView3D ==
    /\ view3D' = ~rendered.view3D
    /\ UNCHANGED <<btnProps, history, future, logs, recorded, windows, showMeasurements,
                   showTokens, confettiTrigger, themeHooks, isCodeFocused>>
    /\ Render(codeText, FALSE)
    /\ Called("onToggleView3D", <<>>, <<>>)
    /\ trip' = TripAfter("onToggleView3D", TRUE)

(***************************************************************************)
(* Two events in one batch: both handlers belong to the same render and    *)
(* capture the same values c; their setters are applied in call order, an  *)
(* updater function to the hook state prev the earlier setters left.       *)
(***************************************************************************)
\* the hook state a handler leaves, from the captured values c and the hook state prev
Handle(ev, c, prev) ==
    CASE ev[1] = "handlePropChange" ->
            [prev EXCEPT !.history = Append(prev.history, c.btnProps),
                         !.future = <<>>,
                         !.btnProps = Spread(c.btnProps, (ev[2] :> ev[3])),
                         !.logs = logEvent(prev.logs,
                                           <<"Prop updated", ev[2], ToStr(ev[2], ev[3])>>)]
      [] ev[1] = "handleUndo" ->
            IF Len(c.history) = 0 THEN prev
            ELSE LET u == undoUpdates(c, prev.future)
                 IN [prev EXCEPT !.future = u.future, !.btnProps = u.btnProps,
                                 !.history = u.history,
                                 !.logs = logEvent(prev.logs, <<"Undo performed">>)]
      [] ev[1] = "handleRedo" ->
            IF Len(c.future) = 0 THEN prev
            ELSE LET r == redoUpdates(c, prev.history)
                 IN [prev EXCEPT !.history = r.history, !.btnProps = r.btnProps,
                                 !.future = r.future,
                                 !.logs = logEvent(prev.logs, <<"Redo performed">>)]
      [] ev[1] = "handleToggleMeasurements" ->
            LET u == toggleMeasurementsUpdates(c, prev)
            IN [prev EXCEPT !.showMeasurements = u.showMeasurements,
                            !.showTokens = u.showTokens,
                            !.logs = logEvent(prev.logs, <<"Measurements toggled",
                                                           OnOff(~c.showMeasurements)>>)]
      [] ev[1] = "handleToggleTokens" ->
            LET u == toggleTokensUpdates(c, prev)
            IN [prev EXCEPT !.showMeasurements = u.showMeasurements,
                            !.showTokens = u.showTokens,
                            !.logs = logEvent(prev.logs, <<"Tokens toggled",
                                                           OnOff(~c.showTokens)>>)]

\* the handler of ev calls setBtnProps
SetsBtnProps(ev, c) ==
    \/ ev[1] = "handlePropChange"
    \/ ev[1] = "handleUndo" /\ Len(c.history) # 0
    \/ ev[1] = "handleRedo" /\ Len(c.future) # 0

\* the handlers of e1 and e2 run one after the other before the next render
dispatchPair(e1, e2) ==
    LET s1 == Handle(e1, rendered, State)
        s2 == Handle(e2, rendered, s1)
    IN /\ Len(history) + 1 < MaxHist
       /\ Len(logs) + 1 < MaxLogs
       /\ btnProps' = s2.btnProps
       /\ history' = s2.history
       /\ future' = s2.future
       /\ showMeasurements' = s2.showMeasurements
       /\ showTokens' = s2.showTokens
       /\ logs' = s2.logs
       /\ recorded' = recorded \o [i \in 1..(Len(s2.logs) - Len(logs)) |->
                                       s2.logs[Len(logs) + i].message]
       /\ UNCHANGED <<windows, view3D, confettiTrigger, themeHooks, isCodeFocused>>
       /\ Render(codeText, SetsBtnProps(e1, rendered) \/ SetsBtnProps(e2, rendered))
       /\ Called("dispatchPair", <<e1, e2>>, <<>>)
       /\ trip' = NoTrip

(***************************************************************************)
(* Theme provider                                                          *)
(***************************************************************************)
\* setThemeName(name), and the render of ThemeProvider that follows
setThemeName(name) ==
    /\ themeName' = name
    /\ UNCHANGED breakpoint
    /\ smartTheme' = useMemoSmartTheme(smartTheme, themeName, breakpoint, name, breakpoint)
    /\ UNCHANGED <<hooks, rendered, recorded>>
    /\ Called("setThemeName", <<name>>, <<>>)
    /\ trip' = TripAfter("setThemeName", TRUE)

\* a render of ThemeProvider in which useBreakpoint() returns bp
useBreakpoint(bp) ==
    /\ breakpoint' = bp
    /\ UNCHANGED themeName
    /\ smartTheme' = useMemoSmartTheme(smartTheme, themeName, breakpoint, themeName, bp)
    /\ UNCHANGED <<hooks, rendered, recorded>>
    /\ Called("useBreakpoint", <<bp>>, <<>>)
    /\ trip' = TripAfter("useBreakpoint", TRUE)

(***************************************************************************)
(* Window management                                                       *)
(***************************************************************************)
\* bringToFront without the test `prev[id].zIndex === maxZ`
bringToFrontUpdateAlways(prev, id) ==
    [prev EXCEPT ![id] = [prev[id] EXCEPT !.zIndex = MaxZIndex(prev) + 1]]

\* bringToFront that exchanges the z-orders of id and the front window
bringToFrontUpdateSwaps(prev, id) ==
    LET maxZ == MaxZIndex(prev)
        front == CHOOSE i \in DOMAIN prev : prev[i].zIndex = maxZ
    IN [prev EXCEPT ![id] = [prev[id] EXCEPT !.zIndex = maxZ],
                    ![front] = [prev[front] EXCEPT !.zIndex = prev[id].zIndex]]

\* the updater bringToFront(id) passes to setWindows
bringToFrontUpdate(prev, id) ==
    LET maxZ == MaxZIndex(prev)
    IN IF prev[id].zIndex = maxZ THEN prev
       ELSE [prev EXCEPT ![id] = [prev[id] EXCEPT !.zIndex = maxZ + 1]]

\* toggleWindow with next[id].zIndex = maxZ
toggleWindowUpdateReusesMax(prev, id) ==
    LET isOpen == ~prev[id].isOpen
        next == [prev EXCEPT ![id] = [prev[id] EXCEPT !.isOpen = isOpen]]
    IN IF isOpen
       THEN [next EXCEPT ![id].zIndex = MaxZIndex(prev)]
       ELSE next

\* toggleWindow without the test `if (isOpen)`
toggleWindowUpdateAlwaysFronts(prev, id) ==
    [prev EXCEPT ![id] = [prev[id] EXCEPT !.isOpen = ~prev[id].isOpen,
                                          !.zIndex = MaxZIndex(prev) + 1]]

\* toggleWindow that builds the entry of id without spreading prev[id]: the window is
\* put back at the origin
toggleWindowUpdateRecentres(prev, id) ==
    LET isOpen == ~prev[id].isOpen
    IN [prev EXCEPT ![id] = [id |-> id, title |-> prev[id].title, isOpen |-> isOpen,
                             zIndex |-> IF isOpen THEN MaxZIndex(prev) + 1
                                        ELSE prev[id].zIndex,
                             x |-> 0, y |-> 0]]

\* the updater toggleWindow(id) passes to setWindows
toggleWindowUpdate(prev, id) ==
    LET isOpen == ~prev[id].isOpen
        next == [prev EXCEPT ![id] = [prev[id] EXCEPT !.isOpen = isOpen]]
    IN IF isOpen
       THEN [next EXCEPT ![id].zIndex = MaxZIndex(prev) + 1]
       ELSE next

bringToFront(id) ==
    /\ MaxZIndex(windows) < MaxZ
    /\ windows' = bringToFrontUpdate(windows, id)
    /\ UNCHANGED <<btnProps, history, future, logs, recorded, showMeasurements, showTokens,
                   view3D, confettiTrigger, themeHooks, isCodeFocused>>
    /\ Render(codeText, FALSE)
    /\ Called("bringToFront", <<id>>, <<>>)
    /\ trip' = TripAfter("bringToFront", TRUE)

\* toggleWindow(id).  For an id that is no key of windows, prev[id] is undefined and
\* the updater throws a TypeError on prev[id].isOpen: nothing is committed.
toggleWindow(id) ==
    /\ MaxZIndex(windows) < MaxZ
    /\ IF id \in DOMAIN windows
       THEN /\ windows' = toggleWindowUpdate(windows, id)
            /\ UNCHANGED <<btnProps, history, future, logs, recorded, showMeasurements,
                           showTokens, view3D, confettiTrigger, themeHooks, isCodeFocused>>
            /\ Render(codeText, FALSE)
            /\ Called("toggleWindow", <<id>>, <<>>)
       ELSE /\ UNCHANGED <<hooks, themeHooks, rendered, recorded>>
            /\ last' = [op |-> "toggleWindow", arg |-> <<id>>, apply |-> <<>>,
                        pre |-> State, thrown |-> "TypeError"]
    /\ trip' = TripAfter("toggleWindow", TRUE)

\* an error thrown by an updater and caught by nothing: the tree is unmounted
Crashed == "thrown" \in DOMAIN last

(***************************************************************************)
(* Specifications                                                          *)
(***************************************************************************)
\* the history manager and the code panel
NextHistory ==
    \/ \E in \in PropInputs : handlePropChange(in[1], in[2])
    \/ \E val \in HistoryInteractions : handleInteractionChange(val)
    \/ handleUndo
    \/ handleRedo
    \/ \E newVal \in EditTexts : handleCodeChange(newVal)

SpecHistory == Init /\ [][NextHistory]_vars

\* updateBtnProps called on its own, with undo and redo
NextApply ==
    \/ handleUndo
    \/ handleRedo
    \/ \E newProps \in ApplyInputs, saveHistory \in BOOLEAN :
          applyBtnProps(newProps, saveHistory)

SpecApply == Init /\ [][NextApply]_vars

\* the window manager
NextWindows ==
    \/ \E id \in WindowIds : bringToFront(id)
    \/ \E id \in WindowIds : toggleWindow(id)

SpecWindows == Init /\ [][NextWindows]_vars

\* the log sink under stage clicks and copies
NextLog ==
    \/ handleStageButtonClick
    \/ handleCopyCode

SpecLog == Init /\ [][NextLog]_vars

\* the stage's view flags
NextOverlay ==
    \/ handleToggleMeasurements
    \/ handleToggleTokens
    \/ onToggleView3D

SpecOverlay == Init /\ [][NextOverlay]_vars

\* resolveTokens on each tree and breakpoint
NextTokens == callResolveTokens

SpecTokens == InitTokens /\ [][NextTokens]_vars

\* the consumers' rendering of each snapshot
NextPresent == renderConsumers

SpecPresent == InitPresent /\ [][NextPresent]_vars

\* the State selector with each of its options, from snapshots left by earlier
\* selections, edits and undos
NextInteraction ==
    \/ \E val \in InteractionValues : handleInteractionChange(val)
    \/ \E newVal \in FlagEditTexts : handleCodeChange(newVal)
    \/ handleUndo

SpecInteraction == Init /\ [][NextInteraction]_vars

\* the code panel: the textarea takes input while it has the focus
NextCode ==
    \/ \E focused \in BOOLEAN : setIsCodeFocused(focused)
    \/ \E newVal \in EditTexts : isCodeFocused /\ handleCodeChange(newVal)
    \/ \E in \in PropInputs : handlePropChange(in[1], in[2])
    \/ handleUndo
    \/ handleRedo

SpecCode == Init /\ [][NextCode]_vars

\* the window manager, with toggleWindow called on any id
NextWindowIds ==
    \/ \E id \in WindowIds : ~Crashed /\ bringToFront(id)
    \/ \E id \in AnyWindowIds : ~Crashed /\ toggleWindow(id)

SpecWindowIds == Init /\ [][NextWindowIds]_vars

\* orchestrator events one at a time, and two in one batch
NextBatched ==
    \/ \E in \in {<<"size", "l">>} : handlePropChange(in[1], in[2])
    \/ handleUndo
    \/ handleRedo
    \/ handleToggleMeasurements
    \/ handleToggleTokens
    \/ \E e1 \in Events, e2 \in Events : dispatchPair(e1, e2)

SpecBatched == Init /\ [][NextBatched]_vars

\* the actions that set orchestrator state, of each panel one
NextSink ==
    \/ \E in \in {<<"size", "l">>} : handlePropChange(in[1], in[2])
    \/ \E newVal \in {Stringify([DefaultProps EXCEPT !.radius = "Pill"])} :
          handleCodeChange(newVal)
    \/ handleUndo
    \/ handleRedo
    \/ \E id \in {"console"} : MaxZIndex(windows) < MaxSinkZ /\ toggleWindow(id)
    \/ \E id \in {"control"} : MaxZIndex(windows) < MaxSinkZ /\ bringToFront(id)
    \/ handleToggleMeasurements
    \/ handleToggleTokens
    \/ onToggleView3D

SpecSink == Init /\ [][NextSink]_vars

\* the theme provider around the stage's view flags
NextTheme ==
    \/ \E name \in ThemeNames : setThemeName(name)
    \/ \E bp \in Breakpoints : useBreakpoint(bp)
    \/ NextOverlay

SpecTheme == InitTheme /\ [][NextTheme]_vars

Next ==
    \/ NextHistory
    \/ NextInteraction
    \/ NextPresent
    \/ NextTheme
    \/ NextSink
    \/ NextCode
    \/ NextTokens
    \/ NextOverlay
    \/ NextLog
    \/ \E val \in InteractionValues : handleInteractionChange(val)
    \/ \E focused \in BOOLEAN : setIsCodeFocused(focused)
    \/ NextWindows

Spec == Init /\ [][Next]_vars

(***************************************************************************)
(* History manager: properties                                             *)
(***************************************************************************)
EffectiveUndo == last.op = "handleUndo" /\ Len(last.pre.history) > 0
EffectiveRedo == last.op = "handleRedo" /\ Len(last.pre.future) > 0
RecordedApply == Len(last.apply) = 1 /\ last.apply[1].saveHistory

TripComplete == trip.phase = "redo" /\ trip.redos = trip.undos

\* C1: after history-recorded applies, N consecutive effective undos followed by N
\* consecutive redos leave the current snapshot that held before the first undo, and
\* future empty again.
UndoRedoRoundTrip ==
    (TripComplete /\ trip.base.future = <<>>)
        => (btnProps = trip.base.btnProps /\ future = <<>>)

UndoRedoRoundTripWitness ==
    /\ TripComplete
    /\ trip.undos = 2
    /\ trip.base.future = <<>>
    /\ trip.base.history[1] # trip.base.history[2]
    /\ trip.base.history[2] # trip.base.btnProps

\* C2: a history-recorded updateBtnProps(newProps) makes newProps current, appends the
\* snapshot that was current before to past, and empties future whatever it held.
RecordedApplyEffect ==
    RecordedApply =>
        /\ btnProps = last.apply[1].newProps
        /\ history = Append(last.pre.history, last.pre.btnProps)
        /\ future = <<>>

RecordedApplyEffectWitness ==
    /\ RecordedApply
    /\ Len(last.pre.future) > 0
    /\ Len(last.pre.history) > 0
    /\ last.pre.btnProps # btnProps

\* C3: an undo with past non-empty removes the last element of past, makes it current
\* and puts the snapshot that was current at the front of future, the rest in order.
UndoEffect ==
    EffectiveUndo =>
        /\ history = SubSeq(last.pre.history, 1, Len(last.pre.history) - 1)
        /\ btnProps = last.pre.history[Len(last.pre.history)]
        /\ future = <<last.pre.btnProps>> \o last.pre.future

UndoEffectWitness ==
    /\ EffectiveUndo
    /\ Len(last.pre.history) >= 2
    /\ Len(last.pre.future) >= 1
    /\ last.pre.btnProps # last.pre.future[1]

\* C4: a redo with future non-empty removes the first element of future, makes it
\* current and appends the snapshot that was current to past, the rest in order.
RedoEffect ==
    EffectiveRedo =>
        /\ future = SubSeq(last.pre.future, 2, Len(last.pre.future))
        /\ btnProps = last.pre.future[1]
        /\ history = Append(last.pre.history, last.pre.btnProps)

RedoEffectWitness ==
    /\ EffectiveRedo
    /\ Len(last.pre.future) >= 2
    /\ Len(last.pre.history) >= 1
    /\ last.pre.btnProps # last.pre.history[1]

\* C5: an undo with past empty and a redo with future empty change neither the current
\* snapshot, nor past, nor future, nor the log.
EmptyUndoRedoNoop ==
    (\/ (last.op = "handleUndo" /\ Len(last.pre.history) = 0)
     \/ (last.op = "handleRedo" /\ Len(last.pre.future) = 0))
        => /\ btnProps = last.pre.btnProps
           /\ history = last.pre.history
           /\ future = last.pre.future
           /\ logs = last.pre.logs

EmptyUndoRedoNoopWitness ==
    /\ last.op = "handleRedo"
    /\ Len(last.pre.future) = 0
    /\ Len(last.pre.history) > 0

\* C6: updateBtnProps(newProps, false) makes newProps current and leaves past and
\* future as they were.
UnrecordedApplyEffect ==
    (Len(last.apply) = 1 /\ ~last.apply[1].saveHistory)
        => /\ btnProps = last.apply[1].newProps
           /\ history = last.pre.history
           /\ future = last.pre.future

UnrecordedApplyEffectWitness ==
    /\ Len(last.apply) = 1
    /\ ~last.apply[1].saveHistory
    /\ Len(last.pre.history) > 0
    /\ Len(last.pre.future) > 0
    /\ last.pre.btnProps # btnProps

\* C7: every history-recorded apply (from the control panel or from a parsed edit of
\* the code panel), every effective undo and every effective redo appends exactly one
\* log entry.
EveryHistoryOperationLogged ==
    (RecordedApply \/ EffectiveUndo \/ EffectiveRedo)
        => logs = Append(last.pre.logs, logs[Len(logs)])

(***************************************************************************)
(* Window manager: properties                                              *)
(***************************************************************************)
FrontWindows(ws) == {i \in DOMAIN ws : ws[i].zIndex = MaxZIndex(ws)}

\* C8: the three z-orders are pairwise distinct and exactly one window, open or
\* closed, holds the maximum.
ZOrdersDistinct ==
    /\ \A i, j \in WindowIds : i # j => windows[i].zIndex # windows[j].zIndex
    /\ Cardinality(FrontWindows(windows)) = 1

ZOrdersDistinctWitness ==
    /\ last.op = "toggleWindow"
    /\ MaxZIndex(windows) >= 6
    /\ \E i \in WindowIds : i \in FrontWindows(windows) /\ ~windows[i].isOpen

\* C9: toggleWindow(id) flips the open flag of id; a window that becomes open gets the
\* maximum z-order of before the call plus one, a window that becomes closed keeps its
\* z-order.
ToggleWindowEffect ==
    last.op = "toggleWindow" =>
        LET id == last.arg[1]
            before == last.pre.windows
        IN /\ windows[id].isOpen = ~before[id].isOpen
           /\ windows[id].isOpen =>
                 /\ windows[id].zIndex = MaxZIndex(before) + 1
                 /\ FrontWindows(windows) = {id}
           /\ ~windows[id].isOpen => windows[id].zIndex = before[id].zIndex

ToggleWindowEffectWitness ==
    /\ last.op = "toggleWindow"
    /\ windows[last.arg[1]].isOpen
    /\ last.pre.windows[last.arg[1]].zIndex < MaxZIndex(last.pre.windows)
    /\ \E j \in WindowIds : ~windows[j].isOpen /\ windows[j].zIndex > 3

\* C10: bringToFront(id) leaves the window state as it is when id holds the maximum
\* z-order, and otherwise sets the z-order of id to the maximum plus one and nothing
\* else.
BringToFrontEffect ==
    last.op = "bringToFront" =>
        LET id == last.arg[1]
            before == last.pre.windows
        IN IF before[id].zIndex = MaxZIndex(before)
           THEN windows = before
           ELSE windows = [before EXCEPT ![id].zIndex = MaxZIndex(before) + 1]

BringToFrontEffectWitness ==
    /\ last.op = "bringToFront"
    /\ windows # last.pre.windows
    /\ ~windows[last.arg[1]].isOpen

(***************************************************************************)
(* Log sink: properties                                                    *)
(***************************************************************************)
\* C11: the log holds at most 50 entries, which are the last min(n, 50) recorded
\* messages in their order; a call keeps the entries that remain as they were.
LogKeepsLastFifty ==
    /\ Len(logs) = (IF Len(recorded) < 50 THEN Len(recorded) ELSE 50)
    /\ \A i \in 1..Len(logs) :
          logs[i].message = recorded[Len(recorded) - Len(logs) + i]
    /\ last.op \in {"handleStageButtonClick", "handleCopyCode"} =>
          \A i \in 1..(Len(logs) - 1) :
             logs[i] = last.pre.logs[Len(last.pre.logs) - (Len(logs) - 1) + i]

LogKeepsLastFiftyWitness ==
    /\ Len(recorded) = 60
    /\ Len(logs) = 50
    /\ logs[1].message = <<"Button Clicked!">>
    /\ \E i \in 2..49 : logs[i].message = <<"JSON copied to clipboard">>

(***************************************************************************)
(* Overlays: properties                                                    *)
(***************************************************************************)
\* C12: the measurement overlay and the token overlay are never both on; a toggle
\* flips its own overlay and leaves the other one off.
OverlaysExclusive ==
    /\ ~(showMeasurements /\ showTokens)
    /\ last.op = "handleToggleMeasurements" =>
          /\ showMeasurements = ~last.pre.showMeasurements
          /\ ~showTokens
    /\ last.op = "handleToggleTokens" =>
          /\ showTokens = ~last.pre.showTokens
          /\ ~showMeasurements

OverlaysExclusiveWitness ==
    /\ last.op = "handleToggleMeasurements"
    /\ last.pre.showTokens
    /\ showMeasurements
    /\ ~showTokens

(***************************************************************************)
(* Token resolution: properties                                            *)
(***************************************************************************)
\* the first of bp, desktop, tablet, mobile that satisfies Has
FirstKey(bp, Has(_)) ==
    IF Has(bp) THEN bp
    ELSE IF Has("desktop") THEN "desktop"
    ELSE IF Has("tablet") THEN "tablet"
    ELSE "mobile"

\* C13: a responsive node resolves to the value under the requested breakpoint key
\* when that key is present, otherwise to the value under the first present key of
\* desktop, tablet, mobile.
ResponsiveFallbackByKey ==
    last.op = "resolveTokens" =>
       LET tree == last.arg[1]
           bp == last.arg[2]
       IN \A key \in DOMAIN tree.entries :
             LET value == tree.entries[key]
                 Present(k) == k \in DOMAIN value.entries
             IN isResponsiveObject(value) =>
                   last.result.entries[key] = value.entries[FirstKey(bp, Present)]

\* C13 (amended): a responsive node resolves to the value under the requested
\* breakpoint key when that key holds a value other than null or undefined,
\* otherwise to the first such value under desktop, tablet, mobile; when no key
\* holds one the result is null or undefined.
ResponsiveFallbackByValue ==
    last.op = "resolveTokens" =>
       LET tree == last.arg[1]
           bp == last.arg[2]
       IN \A key \in DOMAIN tree.entries :
             LET value == tree.entries[key]
                 Holds(k) == /\ k \in DOMAIN value.entries
                             /\ value.entries[k].kind \notin {"null", "undefined"}
             IN isResponsiveObject(value) =>
                   IF \E k \in Breakpoints : Holds(k)
                   THEN last.result.entries[key] = value.entries[FirstKey(bp, Holds)]
                   ELSE last.result.entries[key].kind \in {"null", "undefined"}

ResponsiveFallbackByValueWitness ==
    /\ last.op = "resolveTokens"
    /\ last.arg = <<Map([token |-> Map([mobile |-> Leaf("a"), desktop |-> Leaf("b")])]),
                    "tablet">>
    /\ last.result = Map([token |-> Leaf("b")])

\* no responsive node anywhere in node
RECURSIVE Concrete(_)
Concrete(node) ==
    /\ ~isResponsiveObject(node)
    /\ node.kind = "map" => \A k \in DOMAIN node.entries : Concrete(node.entries[k])

\* out reproduces the non-responsive mappings of in with the same keys, down to the
\* leaves, which are the same
RECURSIVE PreservesStructure(_, _)
PreservesStructure(in, out) ==
    /\ out.kind = "map"
    /\ DOMAIN out.entries = DOMAIN in.entries
    /\ \A k \in DOMAIN in.entries :
          LET value == in.entries[k]
          IN IF isResponsiveObject(value) THEN TRUE
             ELSE IF value.kind = "map" THEN PreservesStructure(value, out.entries[k])
             ELSE out.entries[k] = value

\* C14: resolveTokens returns a fully concrete tree: non-responsive mappings keep
\* their keys, leaves pass through unchanged, and no responsive node remains in the
\* output, the values chosen for responsive nodes included.
ResolvedTreeFullyConcrete ==
    last.op = "resolveTokens" =>
       /\ PreservesStructure(last.arg[1], last.result)
       /\ Concrete(last.result)

(***************************************************************************)
(* Code panel: properties                                                  *)
(***************************************************************************)
\* C15: whenever the code panel is not focused, codeText is the serialization of
\* btnProps; while it is focused, a property change, an undo or a redo leaves
\* codeText as it was.
CodeTextFollowsSnapshot ==
    /\ ~isCodeFocused => codeText = Stringify(btnProps)
    /\ (/\ isCodeFocused
        /\ last.op \in {"handlePropChange", "handleUndo", "handleRedo"}) =>
          codeText = last.pre.codeText

\* a blur after an edit that was applied: the buffer is re-derived
CodeTextFollowsSnapshotWitness ==
    /\ last.op = "setIsCodeFocused"
    /\ ~isCodeFocused
    /\ last.pre.isCodeFocused
    /\ last.pre.codeText # codeText
    /\ last.pre.btnProps # DefaultProps

\* C16: a code-panel edit whose text fails to parse leaves btnProps, history, future
\* and the log as they were, and the handler returns with the text in the buffer;
\* an edit that parses is applied as a history-recorded snapshot.
ParseFailureIgnored ==
    last.op = "handleCodeChange" =>
       IF Parse(last.arg).ok
       THEN /\ btnProps = Parse(last.arg).value
            /\ history = Append(last.pre.history, last.pre.btnProps)
            /\ future = <<>>
       ELSE /\ btnProps = last.pre.btnProps
            /\ history = last.pre.history
            /\ future = last.pre.future
            /\ logs = last.pre.logs
            /\ codeText = last.arg

ParseFailureIgnoredWitness ==
    /\ last.op = "handleCodeChange"
    /\ ~Parse(last.arg).ok
    /\ history # <<>>
    /\ future # <<>>
    /\ btnProps # DefaultProps

(***************************************************************************)
(* Window ids: properties                                                  *)
(***************************************************************************)
\* C17: toggleWindow on an id that is none of control, code, console leaves the
\* windows as they were and does not fail.
ToggleUnknownWindowNoop ==
    (last.op = "toggleWindow" /\ last.arg[1] \notin {"control", "code", "console"}) =>
       /\ windows = last.pre.windows
       /\ ~Crashed

(***************************************************************************)
(* Batched events: properties                                              *)
(***************************************************************************)
\* the values the handlers capture in a render of hook state s
CapturedIn(s) ==
    Captured(s.btnProps, s.history, s.future, s.showMeasurements, s.showTokens, s.view3D)

\* C18: two events dispatched one after the other, the second before a re-render,
\* leave the snapshot, past, future and overlay flags that the two operations leave
\* when the second acts on the state the first produced.
BatchedEventsCompose ==
    last.op = "dispatchPair" =>
       LET s1 == Handle(last.arg[1], CapturedIn(last.pre), last.pre)
           s2 == Handle(last.arg[2], CapturedIn(s1), s1)
       IN /\ btnProps = s2.btnProps
          /\ history = s2.history
          /\ future = s2.future
          /\ showMeasurements = s2.showMeasurements
          /\ showTokens = s2.showTokens

(***************************************************************************)
(* Log sink and mutating actions: properties                               *)
(***************************************************************************)
\* the orchestrator state of s other than the log and the text buffer
Mutable(s) ==
    <<s.btnProps, s.history, s.future, s.windows, s.showMeasurements, s.showTokens,
      s.view3D>>

\* C19: every action that changes orchestrator state (property change, code-panel
\* apply, undo, redo, window toggle, bring-to-front, overlay toggle, 3D toggle)
\* appends a log record.
EveryMutationLogged ==
    (last.op # "mount" /\ Mutable(State) # Mutable(last.pre)) =>
       /\ Len(logs) = Len(last.pre.logs) + 1
       /\ SubSeq(logs, 1, Len(last.pre.logs)) = last.pre.logs

(***************************************************************************)
(* Theme provider: properties                                              *)
(***************************************************************************)
\* C20: the theme table is the palette of the current themeName merged with
\* resolveTokens(rawTheme, current breakpoint): its colours are those of the current
\* theme name and its responsive tokens those of the current breakpoint.
ThemeTableCurrent ==
    LET palette == IF themeName = "light" THEN lightThemeColors ELSE darkThemeColors
        resolved == resolveTokens(rawTheme, breakpoint).entries
    IN /\ smartTheme.kind = "map"
       /\ DOMAIN smartTheme.entries = DOMAIN palette \cup DOMAIN resolved
       /\ \A k \in DOMAIN resolved : smartTheme.entries[k] = resolved[k]
       /\ \A k \in DOMAIN palette \ DOMAIN resolved : smartTheme.entries[k] = palette[k]
       /\ smartTheme.entries.Color.entries.Base.entries.Surface.entries["1"] =
             Leaf(IF themeName = "light" THEN "#FFFFFF" ELSE "#020617")
       /\ smartTheme.entries.Type.entries.Expressive.entries.Display.entries.L.entries.fontSize =
             Leaf([desktop |-> "48px", tablet |-> "40px", mobile |-> "36px"][breakpoint])

ThemeTableCurrentWitness ==
    /\ last.op = "useBreakpoint"
    /\ themeName = "dark"
    /\ breakpoint = "mobile"
    /\ smartTheme.entries.Type.entries.Expressive.entries.Display.entries.L.entries.fontSize =
          Leaf("36px")
    /\ smartTheme.entries.Color.entries.Base.entries.Surface.entries["1"] = Leaf("#020617")

(***************************************************************************)
(* Presentation of the interaction flags: properties                       *)
(***************************************************************************)
\* the flag of highest precedence that is set: disabled > active > focus > hover
Highest(props) ==
    IF props.disabled THEN "disabled"
    ELSE IF props.forcedActive THEN "active"
    ELSE IF props.forcedFocus THEN "focus"
    ELSE IF props.forcedHover THEN "hover"
    ELSE "default"

\* C21: for every combination of the four flags the Control Panel displays the flag
\* of highest precedence that is set, and the Button (pointer away) shows the look of
\* that flag only: dimmed when disabled, pressed when active, the focus ring when
\* focus, raised with the hover colour when hover.
PresentsHighestFlagOnly ==
    (last.op = "render" /\ ~last.arg[2]) =>
       LET top == Highest(last.arg[1])
           shown == last.result
       IN /\ shown.currentInteraction = top
          /\ shown.opacity = "0.4" <=> top = "disabled"
          /\ (shown.animateState.y = "1" /\ shown.animateState.scale = "0.98")
                <=> top = "active"
          /\ shown.focusRing.opacity = "1" <=> top = "focus"
          /\ (/\ shown.animateState.y = "-2"
              /\ shown.animateState.backgroundColor = shown.variantStyle.hover)
                <=> top = "hover"
          /\ top # "hover" => shown.animateState.backgroundColor = shown.variantStyle.bg

(***************************************************************************)
(* Window manager: order of assignment and frame                           *)
(***************************************************************************)
\* C22: in every step a z-order that is assigned is greater than every z-order held
\* before the step; the maximum z-order never decreases and no window's z-order
\* decreases.
ZOrdersOnlyGrow ==
    [][/\ \A i \in WindowIds : windows'[i].zIndex >= windows[i].zIndex
       /\ MaxZIndex(windows') >= MaxZIndex(windows)
       /\ \A i \in WindowIds :
             windows'[i].zIndex # windows[i].zIndex =>
                \A j \in WindowIds : windows'[i].zIndex > windows[j].zIndex]_vars

\* a window other than the front one was raised after several assignments
ZOrdersOnlyGrowWitness ==
    /\ last.op = "bringToFront"
    /\ windows[last.arg[1]].zIndex = MaxZIndex(last.pre.windows) + 1
    /\ MaxZIndex(last.pre.windows) >= 5
    /\ \E j \in WindowIds : j # last.arg[1] /\ windows[j].zIndex > 3

\* C23: toggleWindow(id) and bringToFront(id) leave id, title, x and y of every window
\* as they were, and the open flag and z-order of every window other than id.
WindowsStayInPlace ==
    /\ \A i \in WindowIds :
          /\ windows[i].id = i
          /\ windows[i].title = InitWindows[i].title
          /\ windows[i].x = InitWindows[i].x
          /\ windows[i].y = InitWindows[i].y
    /\ last.op \in {"toggleWindow", "bringToFront"} =>
          /\ DOMAIN windows = DOMAIN last.pre.windows
          /\ \A i \in WindowIds :
                /\ windows[i].id = last.pre.windows[i].id
                /\ windows[i].title = last.pre.windows[i].title
                /\ windows[i].x = last.pre.windows[i].x
                /\ windows[i].y = last.pre.windows[i].y
                /\ i # last.arg[1] =>
                      /\ windows[i].isOpen = last.pre.windows[i].isOpen
                      /\ windows[i].zIndex = last.pre.windows[i].zIndex

\* a toggle that opened a window while the others had been reordered and toggled
WindowsStayInPlaceWitness ==
    /\ last.op = "toggleWindow"
    /\ windows[last.arg[1]].isOpen
    /\ windows[last.arg[1]].zIndex >= 6
    /\ \E j \in WindowIds : /\ j # last.arg[1]
                            /\ windows[j].zIndex # InitWindows[j].zIndex
                            /\ windows[j].isOpen # InitWindows[j].isOpen

(***************************************************************************)
(* History manager: the timeline                                           *)
(***************************************************************************)
\* past ++ [current] ++ future of the hook state s
Timeline(s) == s.history \o <<s.btnProps>> \o s.future

\* C24: an effective undo or redo leaves the sequence past ++ [current] ++ future as
\* it was, and so the sum of the lengths of past and future.
TimelinePreserved ==
    (EffectiveUndo \/ EffectiveRedo) =>
       /\ Timeline(State) = Timeline(last.pre)
       /\ Len(history) + Len(future) = Len(last.pre.history) + Len(last.pre.future)

\* a redo in the middle of a timeline of four different snapshots at least
TimelinePreservedWitness ==
    /\ EffectiveRedo
    /\ Len(history) >= 2
    /\ Len(future) >= 1
    /\ Len(Timeline(State)) >= 4
    /\ \A i, j \in 1..3 : i # j => Timeline(State)[i] # Timeline(State)[j]

(***************************************************************************)
(* Snapshots: shape                                                        *)
(***************************************************************************)
SusButtonTypes == {"primary", "secondary", "tertiary", "success", "fail", "ghost"}
SusButtonSizes == {"xl", "l", "m", "s", "xs"}
SusButtonRadii == {"Sharp", "4px", "8px", "16px", "Pill"}
SusButtonIconPlacements == {"none", "left", "right", "iconOnly"}

\* p has the ten fields of MetaButtonProps with values of their declared types
IsMetaButtonProps(p) ==
    /\ DOMAIN p = {Keys[i] : i \in 1..Len(Keys)}
    /\ p.label \in STRING
    /\ p.type \in SusButtonTypes
    /\ p.size \in SusButtonSizes
    /\ p.radius \in SusButtonRadii
    /\ p.iconPlacement \in SusButtonIconPlacements
    /\ p.icon \in STRING
    /\ \A k \in BoolKeys : p[k] \in BOOLEAN

\* C25: the current snapshot and every snapshot in past and future has the ten fields
\* of MetaButtonProps with values of their declared types.
SnapshotsWellFormed ==
    /\ IsMetaButtonProps(btnProps)
    /\ \A i \in 1..Len(history) : IsMetaButtonProps(history[i])
    /\ \A i \in 1..Len(future) : IsMetaButtonProps(future[i])

(***************************************************************************)
(* State selector: properties                                              *)
(***************************************************************************)
\* the flags the option v of the State selector stands for
FlagsOf(v) ==
    IF v = "disabled" THEN {"disabled"}
    ELSE IF v = "hover" THEN {"forcedHover"}
    ELSE IF v = "focus" THEN {"forcedFocus"}
    ELSE IF v = "active" THEN {"forcedActive"}
    ELSE {}

\* C26: selecting v in the State selector records the old snapshot in past, empties
\* future and leaves a snapshot whose true flags are exactly the flag of v (none for
\* default) with every other field as it was; the selector then displays v.
InteractionSelected ==
    last.op = "handleInteractionChange" =>
       LET v == last.arg[1]
           before == last.pre.btnProps
           flags == {"disabled", "forcedHover", "forcedFocus", "forcedActive"}
       IN /\ history = Append(last.pre.history, before)
          /\ future = <<>>
          /\ DOMAIN btnProps = DOMAIN before \cup flags
          /\ {k \in flags : btnProps[k]} = FlagsOf(v)
          /\ \A k \in DOMAIN before \ flags : btnProps[k] = before[k]
          /\ currentInteraction(btnProps) = v

\* focus selected from a snapshot that had disabled and forcedActive set
InteractionSelectedWitness ==
    /\ last.op = "handleInteractionChange"
    /\ last.arg[1] = "focus"
    /\ "disabled" \in DOMAIN last.pre.btnProps
    /\ last.pre.btnProps.disabled
    /\ last.pre.btnProps.forcedActive
    /\ btnProps.forcedFocus
    /\ ~btnProps.disabled

====
